---- MODULE Spec2Model ----
(***************************************************************************)
(* A model of edx_dl.py: the subsection extractor, the thread-pool fan-out *)
(* over subsection pages, the subtitle converter, the dashboard parser,    *)
(* the subtitle fetch, the section prompt and the steps of main.           *)
(*                                                                         *)
(* Text is modelled as TLA+ strings, read one character at a time, so the  *)
(* regular expressions of the source are modelled character by character.  *)
(* A Python value that may be None is a sequence of length at most one:    *)
(* <<>> is None and <<v>> is the value v.  The outcome of a call that may  *)
(* raise is a record [exc, value]: exc = "" and value = <<v>> on a normal  *)
(* return, exc = the exception's class and value = <<>> when it raises.    *)
(***************************************************************************)
EXTENDS Integers, Sequences, FiniteSets, TLC

VARIABLES
    BASE_URL,       \* the module global set by change_openedx_site
    web,            \* the remote site: url -> what a fetch of it gives
    page_url,       \* extract_subsection alone: its url argument
    primary_units,  \* extract_subsection alone: units when the first loop ends
    section_info,   \* extract_subsection alone: its outcome, <<>> before the call
    urls,           \* extract_all_subsections: its urls argument
    next_task,      \* pool: number of tasks handed to a worker so far
    running,        \* pool: the tasks (positions in urls) a worker is executing
    all_resources,  \* pool.map's result list, one slot per position in urls
    map_error,      \* pool.map: the first exception a task raised, <<>> if none
    outqueue,       \* pool: the outcomes the workers have put, not yet taken
    runs,           \* how often extract_subsection was started per position
    map_pc,         \* extract_all_subsections: "idle", "map", "returned", "raised"
    fanout_result,  \* what extract_all_subsections returned, <<>> before
    timed_text,     \* edx_json2srt: its argument o
    srt,            \* edx_json2srt: its outcome, <<>> before the call
    dashboard,      \* get_courses_info: the article.course cards of the page
    courses,        \* get_courses_info: its outcome, <<>> before the call
    py_major,       \* the Python major version the program runs under
    sub_fetch,      \* edx_get_subtitle: what the subtitle fetch gives
    subtitle,       \* edx_get_subtitle: its outcome, <<>> before the call
    sections,       \* get_selected_sections: its sections argument
    entered,        \* get_selected_sections: the integers typed so far
    prompts,        \* get_selected_sections: 'Enter a valid Number' messages
    selected,       \* get_selected_sections: its outcome, <<>> while prompting
    args,           \* main: platform, username and password as parsed or typed
    is_interactive, \* main: whether the program was started without arguments
    main_pc,        \* main: the statement it is at, "done" once it has ended
    called,         \* main: the functions of the module it has called so far
    main_exc,       \* main: the exception that ended it, "" if none
    exit_status     \* main: the status of sys.exit, <<>> if it was not called

vars == <<BASE_URL, web, page_url, primary_units, section_info, urls, next_task, running,
          all_resources, map_error, outqueue, runs, map_pc, fanout_result, timed_text,
          srt, dashboard, courses, py_major, sub_fetch, subtitle, sections,
          entered, prompts, selected, args, is_interactive, main_pc, called,
          main_exc, exit_status>>

(***************************************************************************)
(* Bounds of the model.                                                    *)
(***************************************************************************)
MaxPieces == 3      \* pieces of text a generated subsection page is made of
MaxUrls == 3        \* urls handed to extract_all_subsections
MaxEntries == 3     \* entries of a timed-text document
MaxCards == 3       \* course cards on a dashboard
MaxSections == 3    \* sections of a course
MaxEntered == 3     \* integers typed at the section prompt

(***************************************************************************)
(* Python values.                                                          *)
(***************************************************************************)
None == <<>>
Some(v) == <<v>>
Return(v) == [exc |-> "", value |-> <<v>>]
Raise(e) == [exc |-> e, value |-> <<>>]

Max(S) == CHOOSE x \in S : \A y \in S : y <= x
Min(S) == CHOOSE x \in S : \A y \in S : x <= y

(***************************************************************************)
(* Strings, one character at a time.                                       *)
(***************************************************************************)
At(s, i) == SubSeq(s, i, i)

\* s[a:b] of Python for 0 <= a <= b, as the 1-based characters a+1..b
Slice(s, a, b) == SubSeq(s, a + 1, Min({b, Len(s)}))

\* whether the literal lit stands in s at position i
LitAt(s, i, lit) == /\ i >= 1
                    /\ i + Len(lit) - 1 <= Len(s)
                    /\ SubSeq(s, i, i + Len(lit) - 1) = lit

\* str.endswith
EndsWith(s, suffix) == /\ Len(suffix) <= Len(s)
                       /\ SubSeq(s, Len(s) - Len(suffix) + 1, Len(s)) = suffix

\* the first position >= i of s whose character is in stop, Len(s) + 1 if none
FirstOf(s, i, stop) ==
    LET hits == {j \in i..Len(s) : At(s, j) \in stop}
    IN  IF hits = {} THEN Len(s) + 1 ELSE Min(hits)

\* the first position >= i of s whose character is not in skip, Len(s) + 1 if none
FirstNotOf(s, i, skip) ==
    LET hits == {j \in i..Len(s) : At(s, j) \notin skip}
    IN  IF hits = {} THEN Len(s) + 1 ELSE Min(hits)

\* (?:&#34;|") at position i: the length matched, 0 if neither matches
QuoteAt(s, i) == IF LitAt(s, i, "&#34;") THEN 5
                 ELSE IF LitAt(s, i, "\"") THEN 1
                 ELSE 0

(***************************************************************************)
(* Program constants.                                                      *)
(***************************************************************************)
YOUTUBE_VIDEO_ID_LENGTH == 11
PoolSize == 20
WATCH_URL == "http://youtube.com/watch?v="

\* OPENEDX_SITES[site]['url'] for the sites of the model
OPENEDX_SITES == {"https://courses.edx.org", "https://lagunita.stanford.edu"}

(***************************************************************************)
(* extract_subsection: the regular expressions.                            *)
(***************************************************************************)
\* 1.0[0]*: at position j: the position after the match, 0 if none
MarkerEnd(s, j) ==
    IF /\ j + 2 <= Len(s)
       /\ At(s, j) = "1"
       /\ At(s, j + 1) # "\n"
       /\ At(s, j + 2) = "0"
    THEN LET z == FirstNotOf(s, j + 3, {"0"})
         IN  IF z <= Len(s) /\ At(s, z) = ":" THEN z + 1 ELSE 0
    ELSE 0

\* re_splitter at position i: the position after the match, 0 if none.  The
\* greedy .* stays on one line and gives back until 1.0[0]*: matches, so the
\* match ends with the last marker of the line.
SplitterEnd(s, i) ==
    IF ~LitAt(s, i, "data-streams=") THEN 0
    ELSE LET q == i + Len("data-streams=")
             b == q + QuoteAt(s, q)
             eol == FirstOf(s, b, {"\n"})
             markers == {j \in b..(eol - 1) : MarkerEnd(s, j) # 0}
         IN  IF QuoteAt(s, q) = 0 \/ markers = {} THEN 0
             ELSE MarkerEnd(s, Max(markers))

\* the first position >= i where re_splitter matches, 0 if there is none
NextSplitter(s, i) ==
    LET hits == {j \in i..Len(s) : SplitterEnd(s, j) # 0}
    IN  IF hits = {} THEN 0 ELSE Min(hits)

\* re_splitter.split(s) from position from on: the text between the matches
RECURSIVE SplitFrom(_, _)
SplitFrom(s, from) ==
    LET i == NextSplitter(s, from)
    IN  IF i = 0 THEN <<SubSeq(s, from, Len(s))>>
        ELSE <<SubSeq(s, from, i - 1)>> \o SplitFrom(s, SplitterEnd(s, i))

re_splitter_split(s) == SplitFrom(s, 1)

\* re_subs at position i: <<group(1)>> if it matches there, <<>> if not
SubsAt(s, i) ==
    IF ~LitAt(s, i, "data-transcript-translation-url=") THEN None
    ELSE LET q == i + Len("data-transcript-translation-url=")
             b == q + QuoteAt(s, q)
             r == FirstOf(s, b, {"\"", "&"})
         IN  IF QuoteAt(s, q) = 0 \/ QuoteAt(s, r) = 0 THEN None
             ELSE Some(SubSeq(s, b, r - 1))

\* re_subs.search(s): <<group(1)>> of the first match, <<>> if there is none
re_subs_search(s) ==
    LET hits == {i \in 1..Len(s) : SubsAt(s, i) # None}
    IN  IF hits = {} THEN None ELSE SubsAt(s, Min(hits))

\* re_extra_youtube at position i: <<group(1), position after the match>>,
\* <<>> if it does not match there
ExtraAt(s, i) ==
    IF ~LitAt(s, i, "//") THEN None
    ELSE LET d == FirstNotOf(s, i + 2, {"w"})
             b == d + 1 + Len("youtube") + 1 + Len("com/embed/")
             r == FirstOf(s, b, {" ", "?", "&"})
         IN  IF /\ d - (i + 2) <= 3
                /\ LitAt(s, d, ".")
                /\ LitAt(s, d + 1, "youtube")
                /\ d + 1 + Len("youtube") <= Len(s)
                /\ At(s, d + 1 + Len("youtube")) # "\n"
                /\ LitAt(s, d + 2 + Len("youtube"), "com/embed/")
                /\ r <= Len(s)
             THEN <<SubSeq(s, b, r - 1), r + 1>>
             ELSE None

\* the first position >= i where re_extra_youtube matches, 0 if there is none
NextExtra(s, i) ==
    LET hits == {j \in i..Len(s) : ExtraAt(s, j) # None}
    IN  IF hits = {} THEN 0 ELSE Min(hits)

\* re_extra_youtube.findall(s) from position from on
RECURSIVE FindallFrom(_, _)
FindallFrom(s, from) ==
    LET i == NextExtra(s, from)
    IN  IF i = 0 THEN <<>>
        ELSE <<ExtraAt(s, i)[1]>> \o FindallFrom(s, ExtraAt(s, i)[2])

re_extra_youtube_findall(s) == FindallFrom(s, 1)

(***************************************************************************)
(* extract_subsection.                                                     *)
(***************************************************************************)
\* get_page_contents(url, headers): the decoded body, or urlopen's URLError
get_page_contents(url) == web[url]

\* The urls of the model that the site never answers
HungUrls == {"u6"}

\* Unit(**kw), the namedtuple's constructor: both fields are required
Unit(kw) == IF DOMAIN kw = {"video_youtube_url", "sub_url"}
            THEN Return(kw)
            ELSE Raise("TypeError")

\* The body of the loop over re_units, for one unit_html
PrimaryUnit(unit_html) ==
    LET video_id == Slice(unit_html, 0, YOUTUBE_VIDEO_ID_LENGTH)
        match_subs == re_subs_search(unit_html)
        sub_url == IF match_subs # None
                   THEN Some(BASE_URL \o match_subs[1] \o "/en" \o "?videoId="
                             \o video_id)
                   ELSE None
    IN  Unit([video_youtube_url |-> WATCH_URL \o video_id, sub_url |-> sub_url])

\* The segments the primary loop runs over: re_splitter.split(page)[1:]
re_unitsKeepFirst(page) == re_splitter_split(page)
re_units(page) == Tail(re_splitter_split(page))

\* The loop over re_units: the units list after it
RECURSIVE PrimaryLoop(_, _)
PrimaryLoop(units, segs) ==
    IF segs = <<>> THEN Return(units)
    ELSE LET u == PrimaryUnit(Head(segs))
         IN  IF u.exc # "" THEN Raise(u.exc)
             ELSE PrimaryLoop(Append(units, u.value[1]), Tail(segs))

PrimaryPass(page) == PrimaryLoop(<<>>, re_units(page))

\* The body of the loop over extra_ids, for one extra_id
ExtraUnit(extra_id) ==
    Unit([video_youtube_url |->
              WATCH_URL \o Slice(extra_id, 0, YOUTUBE_VIDEO_ID_LENGTH)])

\* The loop over extra_ids: the units list after it
RECURSIVE ExtraLoop(_, _)
ExtraLoop(units, ids) ==
    IF ids = <<>> THEN Return(units)
    ELSE LET u == ExtraUnit(Head(ids))
         IN  IF u.exc # "" THEN Raise(u.exc)
             ELSE ExtraLoop(Append(units, u.value[1]), Tail(ids))

SubSection(url, units) == [url |-> url, units |-> units]

\* extract_subsection(url, headers) on an already fetched page
ParseSubsection(url, page) ==
    LET primary == PrimaryPass(page)
    IN  IF primary.exc # "" THEN Raise(primary.exc)
        ELSE LET all == ExtraLoop(primary.value[1],
                                  re_extra_youtube_findall(page))
             IN  IF all.exc # "" THEN Raise(all.exc)
                 ELSE Return(SubSection(url, all.value[1]))

extract_subsection(url) ==
    LET page == get_page_contents(url)
    IN  IF page.exc # "" THEN Raise(page.exc)
        ELSE ParseSubsection(url, page.value[1])

(***************************************************************************)
(* Subsection pages of the model: every text made of at most MaxPieces of  *)
(* these pieces, in any order.                                             *)
(***************************************************************************)
Pieces == {"<p>",
           "data-streams=\"1.00:abcdefghijk\"\n",
           "data-streams=&#34;0.75:x,1.0:lmnop",
           "\" x=\"1.000:",
           " data-transcript-translation-url=\"/t/a\"",
           " data-transcript-translation-url=&#34;/t/b&",
           "//www.youtube.com/embed/LMNOPQRSTUVWX?",
           "//youtube.com/embed/lmn"}

RECURSIVE PagesOf(_)
PagesOf(n) == IF n = 0 THEN {""}
              ELSE PagesOf(n - 1)
                   \cup {p \o x : p \in PagesOf(n - 1), x \in Pieces}


(***************************************************************************)
(* _extract_urls_from_subsections.                                         *)
(***************************************************************************)
RECURSIVE ExtractUrlsLoop(_, _, _)
ExtractUrlsLoop(subsections, video_urls, sub_urls) ==
    IF subsections = <<>> THEN <<video_urls, sub_urls>>
    ELSE LET units == Head(subsections).units
         IN  ExtractUrlsLoop(
                 Tail(subsections),
                 video_urls \o [k \in 1..Len(units) |-> units[k].video_youtube_url],
                 sub_urls \o [k \in 1..Len(units) |-> units[k].sub_url])

_extract_urls_from_subsections(subsections) ==
    ExtractUrlsLoop(subsections, <<>>, <<>>)

(***************************************************************************)
(* extract_all_subsections: ThreadPool(20).map(extract_subsection, urls).  *)
(* pool.map queues one task per url (its chunks hold one url as long as    *)
(* there are at most 4 * 20 urls); each of the 20 worker threads takes the *)
(* next queued task, runs mapfunc on it and hands the outcome back with    *)
(* the task's position.  The caller waits inside pool.map.                 *)
(***************************************************************************)
fanout_vars == <<urls, next_task, running, all_resources, map_error,
                 outqueue, runs, map_pc, fanout_result>>
extract_vars == <<page_url, primary_units, section_info>>
srt_vars == <<timed_text, srt>>
courses_vars == <<dashboard, courses>>
subtitle_vars == <<sub_fetch, subtitle>>
select_vars == <<sections, entered, prompts, selected>>
main_vars == <<args, is_interactive, main_pc, called, main_exc, exit_status>>

\* ThreadPool(20): a task starts only on a worker that runs no task
WorkerIdleUnbounded == TRUE
WorkerIdle == Cardinality(running) < PoolSize

\* MapResult._set: the outcome of the task at position i goes to slot i
StoreInCompletionOrder(res, i, v) ==
    [res EXCEPT ![Min({k \in 1..Len(res) : res[k] = None})] = Some(v)]
StoreResult(res, i, v) == [res EXCEPT ![i] = Some(v)]

\* What a task gives back to the pool: the outcome of mapfunc(url)
TaskOutcomeIsolated(url) ==
    IF extract_subsection(url).exc # "" THEN Return(SubSection(url, <<>>))
    ELSE extract_subsection(url)
TaskOutcome(url) == extract_subsection(url)

\* MapResult: the result is ready once the outcome of every task has been
\* taken from the queue
MapDoneAtFirst == next_task >= 1
MapDone == next_task = Len(urls) /\ running = {} /\ outqueue = <<>>

\* The list pool.map returns: the slots in order (all are filled by then)
MapValue(res) ==
    LET filled == SelectSeq(res, LAMBDA x : x # None)
    IN  [k \in 1..Len(filled) |-> filled[k][1]]

\* extract_all_subsections is called: the pool is made and pool.map queues
\* its tasks
PoolMapCall ==
    /\ map_pc = "idle"
    /\ map_pc' = "map"
    /\ UNCHANGED <<urls, next_task, running, all_resources, map_error,
                   outqueue, runs, fanout_result>>
    /\ UNCHANGED <<BASE_URL, web, py_major, extract_vars, srt_vars,
                   courses_vars, subtitle_vars, select_vars, main_vars>>

\* A worker thread takes the next task from the queue and starts mapfunc
WorkerStart ==
    /\ map_pc # "idle"
    /\ next_task < Len(urls)
    /\ WorkerIdle
    /\ next_task' = next_task + 1
    /\ running' = running \cup {next_task + 1}
    /\ runs' = [runs EXCEPT ![next_task + 1] = @ + 1]
    /\ UNCHANGED <<urls, all_resources, map_error, outqueue, map_pc,
                   fanout_result>>
    /\ UNCHANGED <<BASE_URL, web, py_major, extract_vars, srt_vars,
                   courses_vars, subtitle_vars, select_vars, main_vars>>

\* urlopen is called without a timeout: the fetch of a url the site never
\* answers does not return
Hangs(url) == url \in HungUrls

\* The worker running task i finishes mapfunc(urls[i]) and puts the outcome,
\* with the position of the task, on the pool's result queue; the worker is
\* then free for the next task.
WorkerFinish(i) ==
    /\ i \in running
    /\ ~Hangs(urls[i])
    /\ running' = running \ {i}
    /\ outqueue' = Append(outqueue, [i |-> i, outcome |-> TaskOutcome(urls[i])])
    /\ UNCHANGED <<urls, next_task, all_resources, map_error, runs, map_pc,
                   fanout_result>>
    /\ UNCHANGED <<BASE_URL, web, py_major, extract_vars, srt_vars,
                   courses_vars, subtitle_vars, select_vars, main_vars>>

\* The pool's result thread takes the oldest outcome from the result queue
\* and hands it to MapResult._set.  A value is kept only while no task has
\* failed, and of the exceptions the first: MapResult takes no outcome after
\* a failure.
HandleResult ==
    /\ outqueue # <<>>
    /\ outqueue' = Tail(outqueue)
    /\ LET i == Head(outqueue).i
           r == Head(outqueue).outcome
       IN  IF r.exc = ""
           THEN /\ all_resources' = IF map_error = None
                                    THEN StoreResult(all_resources, i, r.value[1])
                                    ELSE all_resources
                /\ UNCHANGED map_error
           ELSE /\ map_error' = IF map_error = None
                                THEN Some(r.exc)
                                ELSE map_error
                /\ UNCHANGED all_resources
    /\ UNCHANGED <<urls, next_task, running, runs, map_pc, fanout_result>>
    /\ UNCHANGED <<BASE_URL, web, py_major, extract_vars, srt_vars,
                   courses_vars, subtitle_vars, select_vars, main_vars>>

\* pool.map returns its list; then pool.close(), pool.join(), the flattening
\* and the return of extract_all_subsections
MapReturn ==
    /\ map_pc = "map"
    /\ map_error = None
    /\ MapDone
    /\ fanout_result' =
           Some(_extract_urls_from_subsections(MapValue(all_resources)))
    /\ map_pc' = "returned"
    /\ UNCHANGED <<urls, next_task, running, all_resources, map_error,
                   outqueue, runs>>
    /\ UNCHANGED <<BASE_URL, web, py_major, extract_vars, srt_vars,
                   courses_vars, subtitle_vars, select_vars, main_vars>>

\* pool.map raises the exception of a failed task, and extract_all_subsections
\* passes it on to its caller.  Python 3 raises once the outcome of every
\* task has been taken, Python 2 as soon as the outcome of a failed task has.
MapRaise ==
    /\ map_pc = "map"
    /\ map_error # None
    /\ py_major = 3 => MapDone
    /\ map_pc' = "raised"
    /\ UNCHANGED <<urls, next_task, running, all_resources, map_error,
                   outqueue, runs, fanout_result>>
    /\ UNCHANGED <<BASE_URL, web, py_major, extract_vars, srt_vars,
                   courses_vars, subtitle_vars, select_vars, main_vars>>

(***************************************************************************)
(* The states before a call of each operation.                             *)
(***************************************************************************)
ExtractIdle == page_url = "" /\ primary_units = None /\ section_info = None
FanoutIdle == /\ urls = <<>> /\ next_task = 0 /\ running = {}
              /\ all_resources = <<>> /\ map_error = None /\ runs = <<>>
              /\ outqueue = <<>>
              /\ map_pc = "idle" /\ fanout_result = None
SrtIdle == timed_text = None /\ srt = None
CoursesIdle == dashboard = None /\ courses = None
SubtitleIdle == sub_fetch = None /\ subtitle = None
SelectIdle == /\ sections = <<>> /\ entered = <<>> /\ prompts = 0
              /\ selected = None
MainIdle == /\ args = <<>> /\ is_interactive = FALSE /\ main_pc = "idle"
            /\ called = <<>> /\ main_exc = "" /\ exit_status = None

\* BASE_URL as the module sets it on import
DefaultBaseUrl == "https://courses.edx.org"

(***************************************************************************)
(* The fan-out over the subsection pages of a small site.                  *)
(***************************************************************************)
FanoutWeb ==
    [u \in {"u1", "u2", "u3", "u4", "u5", "u6"} |->
        CASE u = "u1" -> Return("<p>data-streams=\"1.00:abcdefghijk\" "
                                \o "data-transcript-translation-url=\"/t/a\""
                                \o "\ndata-streams=\"1.00:bbbbbbbbbbb\"")
          [] u = "u2" -> Return("data-streams=&#34;1.0:ccccccccccc")
          [] u = "u3" -> Return("")
          [] u = "u4" -> Raise("URLError")
          [] u = "u5" -> Return("<iframe src=\"//www.youtube.com/embed/ddddddddddd?rel=0\">")
          [] u = "u6" -> Raise("URLError")]

\* The urls of the model the site answers
AnsweredUrls == DOMAIN FanoutWeb \ HungUrls

UrlLists(n) == UNION {[1..k -> AnsweredUrls] : k \in 0..n}

FanoutStart(us) ==
    /\ urls = us
    /\ next_task = 0
    /\ running = {}
    /\ all_resources = [i \in 1..Len(us) |-> None]
    /\ map_error = None
    /\ outqueue = <<>>
    /\ runs = [i \in 1..Len(us) |-> 0]
    /\ map_pc = "idle"
    /\ fanout_result = None

InitFanout ==
    /\ BASE_URL = DefaultBaseUrl
    /\ web = FanoutWeb
    /\ py_major \in {2, 3}
    /\ \E us \in UrlLists(MaxUrls) : FanoutStart(us)
    /\ ExtractIdle /\ SrtIdle /\ CoursesIdle /\ SubtitleIdle /\ SelectIdle
    /\ MainIdle

NextFanout ==
    \/ PoolMapCall
    \/ WorkerStart
    \/ \E i \in running : WorkerFinish(i)
    \/ HandleResult
    \/ MapReturn
    \/ MapRaise

SpecFanout == InitFanout /\ [][NextFanout]_vars

(***************************************************************************)
(* The fan-out with a full pool: the site never answers the first urls,    *)
(* which leaves two of the 20 workers for the urls after them.             *)
(***************************************************************************)
HungPrefix(h, tail) ==
    [i \in 1..(h + Len(tail)) |-> IF i <= h THEN "u6" ELSE tail[i - h]]

PoolUrlLists ==
    {HungPrefix(h, tail) :
        h \in {0, PoolSize - 2},
        tail \in UNION {[1..k -> {"u2", "u3", "u4"}] : k \in 0..MaxUrls}}

InitPool ==
    /\ BASE_URL = DefaultBaseUrl
    /\ web = FanoutWeb
    /\ py_major \in {2, 3}
    /\ \E us \in PoolUrlLists : FanoutStart(us)
    /\ ExtractIdle /\ SrtIdle /\ CoursesIdle /\ SubtitleIdle /\ SelectIdle
    /\ MainIdle

NextPool ==
    \/ PoolMapCall
    \/ WorkerStart
    \/ \E i \in running : WorkerFinish(i)
    \/ HandleResult
    \/ MapReturn
    \/ MapRaise

SpecPool == InitPool /\ [][NextPool]_vars

(***************************************************************************)
(* extract_subsection on its own, over the generated pages.                *)
(***************************************************************************)
FetchOutcomes ==
    {Return(p) : p \in PagesOf(MaxPieces)} \cup {Raise("URLError")}

InitExtract ==
    /\ BASE_URL \in OPENEDX_SITES
    /\ \E f \in FetchOutcomes : web = [u \in {"u1"} |-> f]
    /\ py_major = 3
    /\ page_url = "u1"
    /\ primary_units = None
    /\ section_info = None
    /\ FanoutIdle /\ SrtIdle /\ CoursesIdle /\ SubtitleIdle /\ SelectIdle
    /\ MainIdle

\* One call extract_subsection(page_url, headers)
ExtractSubsectionCall ==
    /\ page_url # ""
    /\ section_info = None
    /\ section_info' = Some(extract_subsection(page_url))
    /\ primary_units' = IF get_page_contents(page_url).exc = ""
                        THEN Some(PrimaryPass(get_page_contents(page_url).value[1]))
                        ELSE None
    /\ UNCHANGED <<BASE_URL, web, py_major, page_url, fanout_vars, srt_vars,
                   courses_vars, subtitle_vars, select_vars, main_vars>>

NextExtract == ExtractSubsectionCall

SpecExtract == InitExtract /\ [][NextExtract]_vars

(***************************************************************************)
(* edx_json2srt.  A parsed JSON document is [kind, obj]: kind "dict" with  *)
(* obj a function from keys to values, or another kind ("list", "null")    *)
(* whose subscription by a string fails.                                   *)
(***************************************************************************)
\* "%02d" % n and "%03d" % n for n >= 0
Pad2(n) == IF n < 10 THEN "0" \o ToString(n) ELSE ToString(n)
Pad3(n) == IF n < 10 THEN "00" \o ToString(n)
           ELSE IF n < 100 THEN "0" \o ToString(n)
           ELSE ToString(n)

\* datetime(1, 1, 1) + timedelta(seconds=ms/1000.), formatted as
\* hour:minute:second,millisecond: the days of the sum are not printed.  A
\* sum before the year 1 raises OverflowError; a sum after the year 9999
\* would, but needs more milliseconds than an integer of the model holds.
SrtTime(ms) ==
    IF ms < 0 THEN Raise("OverflowError")
    ELSE Return(Pad2((ms \div 3600000) % 24) \o ":"
                \o Pad2((ms \div 60000) % 60) \o ":"
                \o Pad2((ms \div 1000) % 60) \o ","
                \o Pad3(ms % 1000))

\* zip(a, b, c) stops with the shortest
ZipLen(a, b, c) == Min({Len(a), Len(b), Len(c)})

\* The loop of edx_json2srt from entry i (0-based, as enumerate counts) on:
\* the output, or the exception of the first time that cannot be computed
RECURSIVE Json2SrtLoop(_, _, _, _, _)
Json2SrtLoop(start, end, text, i, output) ==
    IF i >= ZipLen(start, end, text) THEN Return(output)
    ELSE IF text[i + 1] = ""
         THEN Json2SrtLoop(start, end, text, i + 1, output)
         ELSE LET s == SrtTime(start[i + 1])
                  e == SrtTime(end[i + 1])
              IN  IF s.exc # "" THEN Raise(s.exc)
                  ELSE IF e.exc # "" THEN Raise(e.exc)
                  ELSE Json2SrtLoop(start, end, text, i + 1,
                           output \o ToString(i) \o "\n"
                           \o s.value[1] \o " --> " \o e.value[1]
                           \o "\n" \o text[i + 1] \o "\n\n")

\* o[key]: KeyError for a dict without the key, TypeError for what is no dict
GetItem(o, key) ==
    IF o.kind # "dict" THEN Raise("TypeError")
    ELSE IF key \notin DOMAIN o.obj THEN Raise("KeyError")
    ELSE Return(o.obj[key])

edx_json2srt(o) ==
    LET start == GetItem(o, "start")
        end == GetItem(o, "end")
        text == GetItem(o, "text")
    IN  IF start.exc # "" THEN Raise(start.exc)
        ELSE IF end.exc # "" THEN Raise(end.exc)
        ELSE IF text.exc # "" THEN Raise(text.exc)
        ELSE Json2SrtLoop(start.value[1], end.value[1], text.value[1], 0, "")

(***************************************************************************)
(* Timed-text documents of the model: at most MaxEntries entries, each a   *)
(* start, an end and a text.                                               *)
(***************************************************************************)
Entries == {<<0, 500, "Hello">>, <<1500, 3200, "World">>, <<10, 20, "">>,
            <<3661001, 90061999, "Hi">>, <<-1, 500, "Late">>,
            <<7, -1, "Ends">>, <<-5, -1, "">>}

EntryLists(n) == UNION {[1..k -> Entries] : k \in 0..n}

TimedText(es) ==
    [kind |-> "dict",
     obj |-> [key \in {"start", "end", "text"} |->
                 CASE key = "start" -> [k \in 1..Len(es) |-> es[k][1]]
                   [] key = "end" -> [k \in 1..Len(es) |-> es[k][2]]
                   [] key = "text" -> [k \in 1..Len(es) |-> es[k][3]]]]

InitSrt ==
    /\ BASE_URL = DefaultBaseUrl
    /\ web = <<>>
    /\ py_major = 3
    /\ \E es \in EntryLists(MaxEntries) : timed_text = Some(TimedText(es))
    /\ srt = None
    /\ ExtractIdle /\ FanoutIdle /\ CoursesIdle /\ SubtitleIdle /\ SelectIdle
    /\ MainIdle

\* One call edx_json2srt(o)
Json2SrtCall ==
    /\ timed_text # None
    /\ srt = None
    /\ srt' = Some(edx_json2srt(timed_text[1]))
    /\ UNCHANGED <<BASE_URL, web, py_major, timed_text, extract_vars,
                   fanout_vars, courses_vars, subtitle_vars, select_vars, main_vars>>

NextSrt == Json2SrtCall

SpecSrt == InitSrt /\ [][NextSrt]_vars

(***************************************************************************)
(* get_courses_info.  A course card (an article.course element) is         *)
(* [h3, a]: h3 the text of its first h3 element and a the attributes of    *)
(* its first anchor, each None when the card has no such element.          *)
(***************************************************************************)
\* The characters str.strip() takes off, of those a string of the model can
\* hold: space, tab, line feed, carriage return, form feed, then written as
\* the characters themselves the vertical tab (11), the separators 28 to 31,
\* next line (133), no-break space (160) and the ogham space mark (5760).
\* The other spaces (8192 to 8202, 8232, 8233, 8239, 8287, 12288) cannot be
\* written in a string of the module and do not occur in its texts.
Whitespace == {" ", "\t", "\n", "\r", "\f", "",
               "", "", "", "", "", " ", " "}

\* str.strip()
Strip(s) ==
    LET inked == {i \in 1..Len(s) : At(s, i) \notin Whitespace}
    IN  IF inked = {} THEN "" ELSE SubSeq(s, Min(inked), Max(inked))

Course(name, url, state) == [name |-> name, url |-> url, state |-> state]

\* The body of the loop over courses_soup, for one card: the Course appended.
\* course_soup.h3.text fails on a card without h3; course_soup.a['href']
\* raises KeyError, which is caught, on an anchor without href, and TypeError,
\* which is not, on a card without anchor.
CourseOfCard(card) ==
    IF card.h3 = None THEN Raise("AttributeError")
    ELSE IF card.a = None THEN Raise("TypeError")
    ELSE IF "href" \notin DOMAIN card.a[1]
         THEN Return(Course(Strip(card.h3[1]), None, "Not yet"))
    ELSE LET course_url == BASE_URL \o card.a[1]["href"]
         IN  Return(Course(Strip(card.h3[1]), Some(course_url),
                           IF \/ EndsWith(course_url, "info")
                              \/ EndsWith(course_url, "info/")
                           THEN "Started" ELSE "Not yet"))

RECURSIVE CoursesLoop(_, _)
CoursesLoop(cards, done) ==
    IF cards = <<>> THEN Return(done)
    ELSE LET c == CourseOfCard(Head(cards))
         IN  IF c.exc # "" THEN Raise(c.exc)
             ELSE CoursesLoop(Tail(cards), Append(done, c.value[1]))

\* get_courses_info(url, headers), dash being what the fetch of url gives
get_courses_info(dash) ==
    IF dash.exc # "" THEN Raise(dash.exc)
    ELSE CoursesLoop(dash.value[1], <<>>)

Cards == {[h3 |-> Some(" Algebra\n"), a |-> None],
          [h3 |-> Some("Logic\r\n"), a |-> Some(<<>>)],
          [h3 |-> Some("Sets"), a |-> Some([href |-> "/courses/S/info"])],
          [h3 |-> Some(" Graphs "), a |-> Some([href |-> "/courses/G/info/"])],
          [h3 |-> Some("Proofs"), a |-> Some([href |-> "/courses/P/about"])],
          [h3 |-> None, a |-> Some([href |-> "/courses/N/info"])]}

CardLists(n) == UNION {[1..k -> Cards] : k \in 0..n}

InitCourses ==
    /\ BASE_URL \in OPENEDX_SITES
    /\ web = <<>>
    /\ py_major = 3
    /\ dashboard \in {Some(Return(cs)) : cs \in CardLists(MaxCards)}
                     \cup {Some(Raise("URLError"))}
    /\ courses = None
    /\ ExtractIdle /\ FanoutIdle /\ SrtIdle /\ SubtitleIdle /\ SelectIdle
    /\ MainIdle

\* One call get_courses_info(DASHBOARD, headers)
GetCoursesInfoCall ==
    /\ dashboard # None
    /\ courses = None
    /\ courses' = Some(get_courses_info(dashboard[1]))
    /\ UNCHANGED <<BASE_URL, web, py_major, dashboard, extract_vars,
                   fanout_vars, srt_vars, subtitle_vars, select_vars, main_vars>>

NextCourses == GetCoursesInfoCall

SpecCourses == InitCourses /\ [][NextCourses]_vars

(***************************************************************************)
(* edx_get_subtitle.  The body of the subtitle response is [json]: None    *)
(* when the text is no JSON, else the document json.loads gives.           *)
(***************************************************************************)
json_loads(body) == IF body.json = None THEN Raise("ValueError")
                    ELSE Return(body.json[1])

\* The except clauses of edx_get_subtitle for an exception of class exc
\* raised in its try block.  e.reason is there for a URLError; e.message is
\* there for a ValueError of Python 2 only.
SubtitleExcept(exc) ==
    IF exc = "URLError" THEN Return(None)
    ELSE IF exc = "ValueError"
         THEN IF py_major = 2 THEN Return(None) ELSE Raise("AttributeError")
    ELSE Raise(exc)

\* edx_get_subtitle(url, headers), fetched being what the fetch of url gives
edx_get_subtitle(fetched) ==
    IF fetched.exc # "" THEN SubtitleExcept(fetched.exc)
    ELSE LET json_object == json_loads(fetched.value[1])
         IN  IF json_object.exc # "" THEN SubtitleExcept(json_object.exc)
             ELSE LET text == edx_json2srt(json_object.value[1])
                  IN  IF text.exc # "" THEN SubtitleExcept(text.exc)
                      ELSE Return(Some(text.value[1]))

\* The document doc without the keys outside keep
OnlyKeys(doc, keep) ==
    [kind |-> doc.kind, obj |-> [key \in DOMAIN doc.obj \cap keep |-> doc.obj[key]]]

SubtitleBodies ==
    {[json |-> Some(OnlyKeys(TimedText(es), keep))] :
        es \in EntryLists(MaxEntries), keep \in SUBSET {"start", "end", "text"}}
    \cup {[json |-> None],
          [json |-> Some([kind |-> "list", obj |-> <<>>])],
          [json |-> Some([kind |-> "null", obj |-> <<>>])]}

InitSubtitle ==
    /\ BASE_URL = DefaultBaseUrl
    /\ web = <<>>
    /\ py_major \in {2, 3}
    /\ sub_fetch \in {Some(Return(b)) : b \in SubtitleBodies}
                     \cup {Some(Raise("URLError"))}
    /\ subtitle = None
    /\ ExtractIdle /\ FanoutIdle /\ SrtIdle /\ CoursesIdle /\ SelectIdle
    /\ MainIdle

\* One call edx_get_subtitle(url, headers)
GetSubtitleCall ==
    /\ sub_fetch # None
    /\ subtitle = None
    /\ subtitle' = Some(edx_get_subtitle(sub_fetch[1]))
    /\ UNCHANGED <<BASE_URL, web, py_major, sub_fetch, extract_vars,
                   fanout_vars, srt_vars, courses_vars, select_vars, main_vars>>

NextSubtitle == GetSubtitleCall

SpecSubtitle == InitSubtitle /\ [][NextSubtitle]_vars

(***************************************************************************)
(* get_selected_sections.                                                  *)
(***************************************************************************)
Section(position, name, url) == [position |-> position, name |-> name, url |-> url]

\* The sections get_available_sections lists for a course with n chapters
SectionList(n) ==
    [i \in 1..n |-> Section(i, "Week " \o ToString(i),
                            DefaultBaseUrl \o "/courseware/" \o ToString(i))]

\* list[k] of Python: a negative k counts from the end
ListItem(list, k) ==
    IF 0 <= k /\ k < Len(list) THEN Return(list[k + 1])
    ELSE IF 0 - Len(list) <= k /\ k < 0 THEN Return(list[Len(list) + k + 1])
    ELSE Raise("IndexError")

\* Whether the while loop asks again after number was entered
AsksAgain(secs, number) == number > Len(secs) + 1

\* What get_selected_sections returns once the loop has let number through
SelectionOf(secs, number) ==
    IF number = Len(secs) + 1 THEN Return(secs)
    ELSE IF ListItem(secs, number - 1).exc # ""
         THEN Raise(ListItem(secs, number - 1).exc)
    ELSE Return(<<ListItem(secs, number - 1).value[1]>>)

\* The integers the user of the model types
Choices == (0 - MaxSections - 1)..(MaxSections + 3)

InitSelect ==
    /\ BASE_URL = DefaultBaseUrl
    /\ web = <<>>
    /\ py_major = 3
    /\ \E n \in 0..MaxSections : sections = SectionList(n)
    /\ entered = <<>>
    /\ prompts = 0
    /\ selected = None
    /\ ExtractIdle /\ FanoutIdle /\ SrtIdle /\ CoursesIdle /\ SubtitleIdle
    /\ MainIdle

\* The user answers 'Enter Your Choice: ' with number: either the loop prints
\* 'Enter a valid Number between 1 and ...' and asks again, or the function
\* ends
EnterChoice(number) ==
    /\ selected = None
    /\ Len(entered) < MaxEntered
    /\ entered' = Append(entered, number)
    /\ IF AsksAgain(sections, number)
       THEN prompts' = prompts + 1 /\ UNCHANGED selected
       ELSE selected' = Some(SelectionOf(sections, number)) /\ UNCHANGED prompts
    /\ UNCHANGED <<BASE_URL, web, py_major, sections, extract_vars,
                   fanout_vars, srt_vars, courses_vars, subtitle_vars,
                   main_vars>>

NextSelect == \E number \in Choices : EnterChoice(number)

SpecSelect == InitSelect /\ [][NextSelect]_vars

(***************************************************************************)
(* main, from the parsed arguments on.  One action per statement; called   *)
(* lists the functions of the module entered while main runs.  The         *)
(* statement                                                               *)
(* headers = _edx_get_headers() looks up a name the module does not        *)
(* define, so no run of main gets past it.                                 *)
(***************************************************************************)
\* OPENEDX_SITES[site_name]['url'] for every key of OPENEDX_SITES
SiteUrl ==
    "edx" :> "https://courses.edx.org"
    @@ "stanford" :> "https://lagunita.stanford.edu"
    @@ "usyd-sit" :> "http://online.it.usyd.edu.au"
    @@ "fun" :> "https://www.france-universite-numerique-mooc.fr"
    @@ "gwu-seas" :> "http://openedx.seas.gwu.edu"
    @@ "gwu-open" :> "http://mooc.online.gwu.edu"

\* The names the module binds by import
ImportedNames ==
    {"print_function", "unicode_literals", "builtins", "CookieJar",
     "urlencode", "urlopen", "build_opener", "install_opener",
     "HTTPCookieProcessor", "Request", "URLError", "argparse", "getpass",
     "json", "os", "re", "sys", "namedtuple", "timedelta", "datetime",
     "partial", "ThreadPool", "Popen", "PIPE", "BeautifulSoup"}

\* The names the module binds by assignment; input = raw_input succeeds
\* under Python 2 only
AssignedNames ==
    {"OPENEDX_SITES", "BASE_URL", "EDX_HOMEPAGE", "LOGIN_API", "DASHBOARD",
     "COURSEWARE_SEL", "YOUTUBE_VIDEO_ID_LENGTH", "Course", "Section",
     "SubSection", "Unit"}
    \cup (IF py_major = 2 THEN {"input"} ELSE {})

\* The names the interpreter gives the module when it is run as a script,
\* which is how main is started (if __name__ == '__main__')
ModuleAttributes ==
    {"__name__", "__doc__", "__file__", "__package__", "__builtins__"}
    \cup (IF py_major = 3
          THEN {"__loader__", "__spec__", "__cached__", "__annotations__"}
          ELSE {})

\* The built-in names of both Python majors (2.7 and 3.11, site loaded)
BuiltinsOfBoth ==
    {"ArithmeticError", "AssertionError", "AttributeError", "BaseException",
     "BufferError", "BytesWarning", "DeprecationWarning", "EOFError",
     "Ellipsis", "EnvironmentError", "Exception", "False",
     "FloatingPointError", "FutureWarning", "GeneratorExit", "IOError",
     "ImportError", "ImportWarning", "IndentationError", "IndexError",
     "KeyError", "KeyboardInterrupt", "LookupError", "MemoryError",
     "NameError", "None", "NotImplemented", "NotImplementedError", "OSError",
     "OverflowError", "PendingDeprecationWarning", "ReferenceError",
     "RuntimeError", "RuntimeWarning", "StopIteration", "SyntaxError",
     "SyntaxWarning", "SystemError", "SystemExit", "TabError", "True",
     "TypeError", "UnboundLocalError", "UnicodeDecodeError",
     "UnicodeEncodeError", "UnicodeError", "UnicodeTranslateError",
     "UnicodeWarning", "UserWarning", "ValueError", "Warning",
     "ZeroDivisionError", "__debug__", "__doc__", "__import__", "__name__",
     "__package__", "abs", "all", "any", "bin", "bool", "bytearray", "bytes",
     "callable", "chr", "classmethod", "compile", "complex", "copyright",
     "credits", "delattr", "dict", "dir", "divmod", "enumerate", "eval",
     "exit", "filter", "float", "format", "frozenset", "getattr", "globals",
     "hasattr", "hash", "help", "hex", "id", "input", "int", "isinstance",
     "issubclass", "iter", "len", "license", "list", "locals", "map", "max",
     "memoryview", "min", "next", "object", "oct", "open", "ord", "pow",
     "print", "property", "quit", "range", "repr", "reversed", "round",
     "set", "setattr", "slice", "sorted", "staticmethod", "str", "sum",
     "super", "tuple", "type", "vars", "zip"}

\* The built-in names of Python 2 alone
BuiltinsOf2 ==
    {"StandardError", "apply", "basestring", "buffer", "cmp", "coerce",
     "execfile", "file", "intern", "long", "raw_input", "reduce", "reload",
     "unichr", "unicode", "xrange"}

\* The built-in names of Python 3 alone
BuiltinsOf3 ==
    {"BaseExceptionGroup", "BlockingIOError", "BrokenPipeError",
     "ChildProcessError", "ConnectionAbortedError", "ConnectionError",
     "ConnectionRefusedError", "ConnectionResetError", "EncodingWarning",
     "ExceptionGroup", "FileExistsError", "FileNotFoundError",
     "InterruptedError", "IsADirectoryError", "ModuleNotFoundError",
     "NotADirectoryError", "PermissionError", "ProcessLookupError",
     "RecursionError", "ResourceWarning", "StopAsyncIteration",
     "TimeoutError", "__build_class__", "__loader__", "__spec__", "aiter",
     "anext", "ascii", "breakpoint", "exec"}

Builtins == BuiltinsOfBoth \cup (IF py_major = 2 THEN BuiltinsOf2
                                 ELSE BuiltinsOf3)

\* The functions the module defines
ModuleNames ==
    {"print", "change_openedx_site", "display_courses", "get_courses_info",
     "get_selected_course", "_get_initial_token", "get_available_sections",
     "get_page_contents", "directory_name", "edx_json2srt",
     "edx_get_subtitle", "edx_login", "parse_args", "edx_get_headers",
     "extract_subsection", "_extract_urls_from_subsections",
     "extract_all_subsections", "display_sections", "get_selected_sections",
     "execute_command", "main", "get_filename"}

\* The names bound in the module once it is loaded
Globals == ModuleNames \cup ImportedNames \cup AssignedNames
           \cup ModuleAttributes

\* The lookup of a global name when a statement is run: the module's names
\* first, then the built-in ones
Lookup(name) == IF name \in Globals \cup Builtins THEN Return(name)
                ELSE Raise("NameError")

\* not v of Python, for v None or a str
Not(v) == v = None \/ v[1] = ""

\* The platforms of the model: the keys of OPENEDX_SITES and two others
Platforms == DOMAIN SiteUrl \cup {"", "mit"}

\* What args.username and args.password can be: None when the option is
\* not given on the command line, a str when it is given or typed
Credentials(interactive) ==
    IF interactive THEN {Some(""), Some("user@example.com")}
    ELSE {None, Some(""), Some("user@example.com")}

InitMain ==
    /\ BASE_URL = DefaultBaseUrl
    /\ web = <<>>
    /\ py_major \in {2, 3}
    /\ is_interactive \in BOOLEAN
    /\ \E platform \in Platforms,
          username \in Credentials(is_interactive),
          password \in Credentials(is_interactive) :
           args = [platform |-> platform, username |-> username,
                   password |-> password]
    /\ main_pc = "change_openedx_site"
    /\ called = <<>>
    /\ main_exc = ""
    /\ exit_status = None
    /\ ExtractIdle /\ FanoutIdle /\ SrtIdle /\ CoursesIdle /\ SubtitleIdle
    /\ SelectIdle

\* change_openedx_site(args.platform): sys.exit(2) for a platform that is no
\* key of OPENEDX_SITES, else BASE_URL becomes the url of the platform
MainChangeSite ==
    /\ main_pc = "change_openedx_site"
    /\ IF args.platform \notin DOMAIN SiteUrl
       THEN /\ called' = called \o <<"change_openedx_site", "print">>
            /\ main_exc' = "SystemExit"
            /\ exit_status' = Some(2)
            /\ main_pc' = "done"
            /\ UNCHANGED BASE_URL
       ELSE /\ called' = Append(called, "change_openedx_site")
            /\ BASE_URL' = SiteUrl[args.platform]
            /\ main_pc' = "credentials"
            /\ UNCHANGED <<main_exc, exit_status>>
    /\ UNCHANGED <<web, py_major, args, is_interactive, extract_vars,
                   fanout_vars, srt_vars, courses_vars, subtitle_vars,
                   select_vars>>

\* if not args.username or not args.password: print(...); sys.exit(2)
MainCheckCredentials ==
    /\ main_pc = "credentials"
    /\ IF Not(args.username) \/ Not(args.password)
       THEN /\ called' = Append(called, "print")
            /\ main_exc' = "SystemExit"
            /\ exit_status' = Some(2)
            /\ main_pc' = "done"
       ELSE /\ main_pc' = "headers"
            /\ UNCHANGED <<called, main_exc, exit_status>>
    /\ UNCHANGED <<BASE_URL, web, py_major, args, is_interactive,
                   extract_vars, fanout_vars, srt_vars, courses_vars,
                   subtitle_vars, select_vars>>

\* headers = _edx_get_headers(): the name is looked up first, and the
\* exception of a failed lookup ends main; the statement after it is
\* resp = edx_login(...)
MainGetHeaders ==
    /\ main_pc = "headers"
    /\ LET f == Lookup("_edx_get_headers")
       IN  IF f.exc # ""
           THEN /\ main_exc' = f.exc
                /\ main_pc' = "done"
                /\ UNCHANGED called
           ELSE /\ called' = Append(called, f.value[1])
                /\ main_pc' = "login"
                /\ UNCHANGED main_exc
    /\ UNCHANGED <<BASE_URL, web, py_major, args, is_interactive,
                   exit_status, extract_vars, fanout_vars, srt_vars,
                   courses_vars, subtitle_vars, select_vars>>

NextMain == MainChangeSite \/ MainCheckCredentials \/ MainGetHeaders

SpecMain == InitMain /\ [][NextMain]_vars

(***************************************************************************)
(* Properties.                                                             *)
(***************************************************************************)
\* The units of the urls us, url by url in the order of us
RECURSIVE UnitsInOrder(_)
UnitsInOrder(us) ==
    IF us = <<>> THEN <<>>
    ELSE extract_subsection(Head(us)).value[1].units \o UnitsInOrder(Tail(us))

AllTasksSucceed == \A i \in 1..Len(urls) : extract_subsection(urls[i]).exc = ""

\* C1: whatever the order in which the tasks finish, the (video_urls,
\* sub_urls) that extract_all_subsections returns are the units of the urls
\* in input order, unit by unit: both lists are as long as there are units,
\* and entry k of each comes from the k-th unit.  The result is a function
\* of the input alone.
C1_InputOrder ==
    (map_pc = "returned" /\ AllTasksSucceed) =>
        LET U == UnitsInOrder(urls)
            video_urls == fanout_result[1][1]
            sub_urls == fanout_result[1][2]
        IN  /\ Len(video_urls) = Len(sub_urls)
            /\ Len(video_urls) = Len(U)
            /\ \A k \in 1..Len(U) :
                  /\ video_urls[k] = U[k].video_youtube_url
                  /\ sub_urls[k] = U[k].sub_url

\* A return over two different urls with three or more units, some with and
\* some without a subtitle url
C1_Witness ==
    /\ map_pc = "returned"
    /\ Len(urls) >= 2
    /\ urls[1] # urls[2]
    /\ Len(fanout_result[1][1]) >= 3
    /\ \E k \in 1..Len(fanout_result[1][2]) : fanout_result[1][2][k] # None
    /\ \E k \in 1..Len(fanout_result[1][2]) : fanout_result[1][2][k] = None

\* C2: when extract_all_subsections has returned, every task, one per url,
\* was started once and has handed back its result, and no task is running
\* or waiting in the queue, and no outcome is still to be taken.
C2_ReturnsAfterAllTasks ==
    map_pc = "returned" =>
        /\ running = {}
        /\ outqueue = <<>>
        /\ next_task = Len(urls)
        /\ \A i \in 1..Len(urls) : runs[i] = 1 /\ all_resources[i] # None

\* A return over two or more urls
C2_Witness == map_pc = "returned" /\ Len(urls) >= 2 /\ fanout_result # None

\* C3: if the fetch of some url fails, extract_all_subsections never returns
\* and hands out no result; it raises only when a task failed, and then
\* without a result; if no task fails it does not raise, it returns once
\* every task is done, and its result covers the units of all urls.
C3_AllOrNothing ==
    /\ (\E i \in 1..Len(urls) : get_page_contents(urls[i]).exc # "")
           => (map_pc # "returned" /\ fanout_result = None)
    /\ map_pc = "raised"
           => (fanout_result = None /\ ~AllTasksSucceed)
    /\ (/\ map_pc = "map" /\ next_task = Len(urls)
        /\ running = {} /\ outqueue = <<>>
        /\ AllTasksSucceed)
           => ENABLED MapReturn
    /\ (map_pc = "returned" /\ AllTasksSucceed)
           => /\ \A i \in 1..Len(urls) : all_resources[i] # None
              /\ Len(fanout_result[1][1]) = Len(UnitsInOrder(urls))

\* extract_all_subsections has raised although some of its tasks had handed
\* back a SubSection
C3_Witness ==
    /\ map_pc = "raised"
    /\ fanout_result = None
    /\ \E i \in 1..Len(urls) : all_resources[i] # None
    /\ \E i \in 1..Len(urls) : get_page_contents(urls[i]).exc # ""

\* C4: at no time do more than 20 tasks run, however many urls there are;
\* no url is started twice, and at the return each url was started once.
C4_AtMostTwentyRunning ==
    /\ Cardinality(running) <= 20
    /\ running \subseteq 1..Len(urls)
    /\ \A i \in 1..Len(urls) : runs[i] <= 1
    /\ map_pc = "returned" => \A i \in 1..Len(urls) : runs[i] = 1

\* 20 tasks run and the last of more than 20 urls has got its worker only
\* after another task finished
C4_Witness ==
    /\ Len(urls) > 20
    /\ Cardinality(running) = 20
    /\ next_task = Len(urls)

\* C5 (as claimed): extract_subsection returns a SubSection whose units are
\* one per primary segment in page order, then one per iframe match in match
\* order, each iframe unit with the watch url of the matched identifier and
\* no subtitle url: p + k units for p segments and k matches.
C5_PrimaryThenIframeUnits ==
    (section_info # None /\ get_page_contents(page_url).exc = "") =>
        LET page == get_page_contents(page_url).value[1]
            ids == re_extra_youtube_findall(page)
            out == section_info[1]
        IN  /\ out.exc = ""
            /\ primary_units[1].exc = ""
            /\ out.value[1].units =
                   primary_units[1].value[1]
                   \o [k \in 1..Len(ids) |->
                          [video_youtube_url |-> WATCH_URL \o Slice(ids[k], 0, 11),
                           sub_url |-> None]]
            /\ Len(out.value[1].units)
                   = Len(re_splitter_split(page)) - 1 + Len(ids)

\* C6: the primary pass drops the text before the first delimiter match and
\* makes one Unit per remaining segment, with or without transcript: its
\* video url is the watch url plus the first 11 characters of the segment;
\* its subtitle url is BASE_URL + the captured path + "/en" + "?videoId=" +
\* the same characters if the segment holds the transcript attribute, and
\* None if not.  A page without delimiter and iframe matches gives a
\* SubSection without units.
C6_PrimaryPass ==
    (section_info # None /\ get_page_contents(page_url).exc = "") =>
        LET page == get_page_contents(page_url).value[1]
            segs == re_splitter_split(page)
            out == primary_units[1]
        IN  /\ out.exc = ""
            /\ Len(out.value[1]) = Len(segs) - 1
            /\ \A k \in 1..(Len(segs) - 1) :
                  LET seg == segs[k + 1]
                      id == SubSeq(seg, 1, Min({11, Len(seg)}))
                      found == {i \in 1..Len(seg) : SubsAt(seg, i) # None}
                      unit == out.value[1][k]
                  IN  /\ unit.video_youtube_url
                             = "http://youtube.com/watch?v=" \o id
                      /\ found = {} => unit.sub_url = None
                      /\ found # {} =>
                             unit.sub_url
                                 = Some(BASE_URL \o SubsAt(seg, Min(found))[1]
                                        \o "/en" \o "?videoId=" \o id)
            /\ (Len(segs) = 1 /\ re_extra_youtube_findall(page) = <<>>)
                   => section_info[1] = Return(SubSection(page_url, <<>>))

\* A page whose primary pass gave two or more units, one with and one
\* without a subtitle url
C6_Witness ==
    /\ section_info # None
    /\ primary_units # None
    /\ Len(primary_units[1].value[1]) >= 2
    /\ \E k \in 1..Len(primary_units[1].value[1]) :
           primary_units[1].value[1][k].sub_url # None
    /\ \E k \in 1..Len(primary_units[1].value[1]) :
           primary_units[1].value[1][k].sub_url = None

\* The subtitle text with the cues numbered 0, 1, 2, ... over the entries
\* that are kept: entry i (0-based) is the next to look at, n cues are out
RECURSIVE RenumberedSrt(_, _, _, _, _, _)
RenumberedSrt(start, end, text, i, n, output) ==
    IF i >= ZipLen(start, end, text) THEN output
    ELSE IF text[i + 1] = ""
         THEN RenumberedSrt(start, end, text, i + 1, n, output)
         ELSE RenumberedSrt(start, end, text, i + 1, n + 1,
                  output \o ToString(n) \o "\n"
                  \o SrtTime(start[i + 1]).value[1] \o " --> "
                  \o SrtTime(end[i + 1]).value[1]
                  \o "\n" \o text[i + 1] \o "\n\n")

\* Whether the times of all entries of o with a text can be printed
KeptTimesPrintable(o) ==
    \A k \in 1..ZipLen(o["start"], o["end"], o["text"]) :
        o["text"][k] # "" => (o["start"][k] >= 0 /\ o["end"][k] >= 0)

\* C7 (as claimed): edx_json2srt leaves out the entries with empty text and
\* numbers the cues it emits 0, 1, 2, ... over the entries it keeps.
C7_CuesNumberedOverKept ==
    (srt # None /\ KeptTimesPrintable(timed_text[1].obj)) =>
        srt[1] = Return(RenumberedSrt(timed_text[1].obj["start"],
                                      timed_text[1].obj["end"],
                                      timed_text[1].obj["text"], 0, 0, ""))

\* C8 (as claimed): get_courses_info does not fail on a card without anchor:
\* every card is recorded in document order, a card without anchor with no
\* url and the state 'Not yet', a card whose link ends in info or info/ as
\* 'Started'.
C8_NoAnchorIsNoError ==
    (/\ courses # None
     /\ dashboard[1].exc = ""
     /\ \A k \in 1..Len(dashboard[1].value[1]) :
            dashboard[1].value[1][k].h3 # None) =>
        LET cards == dashboard[1].value[1]
            out == courses[1]
        IN  /\ out.exc = ""
            /\ Len(out.value[1]) = Len(cards)
            /\ \A k \in 1..Len(cards) :
                  /\ out.value[1][k].name = Strip(cards[k].h3[1])
                  /\ cards[k].a = None =>
                         /\ out.value[1][k].url = None
                         /\ out.value[1][k].state = "Not yet"
                  /\ (/\ cards[k].a # None
                      /\ "href" \in DOMAIN cards[k].a[1]
                      /\ \/ EndsWith(cards[k].a[1]["href"], "info")
                         \/ EndsWith(cards[k].a[1]["href"], "info/"))
                         => out.value[1][k].state = "Started"

\* Whether the body b is bad subtitle data: no JSON, or JSON without one of
\* the arrays start, end, text
BadSubtitleData(b) ==
    \/ b.json = None
    \/ b.json[1].kind # "dict"
    \/ {"start", "end", "text"} \ DOMAIN b.json[1].obj # {}

\* C9 (as claimed): on a body that is no JSON or lacks one of the arrays,
\* edx_get_subtitle does not fail and returns None.
C9_BadDataGivesNone ==
    (/\ subtitle # None
     /\ sub_fetch[1].exc = ""
     /\ BadSubtitleData(sub_fetch[1].value[1])) =>
        subtitle[1] = Return(None)

\* C10 (as claimed): get_selected_sections ends only on an entry n with
\* 1 <= n <= num_sections + 1, every other entry makes it ask again, and it
\* returns all sections for n = num_sections + 1 and the section at
\* position n otherwise.
C10_OnlyAnnouncedRange ==
    /\ prompts = Cardinality({k \in 1..Len(entered) :
                                 entered[k] \notin 1..(Len(sections) + 1)})
    /\ selected # None =>
           LET n == entered[Len(entered)]
           IN  /\ n \in 1..(Len(sections) + 1)
               /\ selected[1] = IF n = Len(sections) + 1
                                THEN Return(sections)
                                ELSE Return(<<sections[n]>>)

\* Whether main was given a key of OPENEDX_SITES
KnownPlatform == args.platform \in DOMAIN SiteUrl

\* Whether main was given a non-empty username and a non-empty password
Supplied == ~Not(args.username) /\ ~Not(args.password)

\* The steps of main that come after the login
LaterSteps == {"get_courses_info", "get_available_sections",
               "extract_all_subsections", "execute_command"}

\* C11 (as claimed): with a known platform and a non-empty username and
\* password, main has built the headers and then called edx_login by the
\* time it ends; the dashboard fetch, the section listing, the fan-out and
\* the downloads come only after the login; with a known platform and a
\* missing username or password main ends with sys.exit(2) before the login
\* and all later steps.
C11_HeadersThenLogin ==
    main_pc # "idle" =>
        /\ (main_pc = "done" /\ KnownPlatform /\ Supplied) =>
               \E j, k \in 1..Len(called) :
                   /\ j < k
                   /\ called[j] = "edx_get_headers"
                   /\ called[k] = "edx_login"
        /\ \A k \in 1..Len(called) :
               called[k] \in LaterSteps =>
                   \E j \in 1..(k - 1) : called[j] = "edx_login"
        /\ (main_pc = "done" /\ KnownPlatform /\ ~Supplied) =>
               /\ exit_status = Some(2)
               /\ \A k \in 1..Len(called) :
                      called[k] \notin LaterSteps \cup {"edx_login"}
====
